---- MODULE Spec2Model ----
(***************************************************************************)
(* A model of the analysis pipeline of src/models.py: robust_clean_data,   *)
(* validate_data, granger_causality_analysis, monte_carlo_simulation and   *)
(* analyze_sheets.                                                         *)
(*                                                                         *)
(* A DataFrame is a record [columns, rows]: the sequence of column labels  *)
(* and the sequence of rows, each row a sequence of cells as long as       *)
(* columns.  A cell (and a label, since line 41 turns a row of cells into  *)
(* the labels) is a record [kind, s, v, frac]:                             *)
(*    kind = "nan"  a missing value (NaN / None)                           *)
(*    kind = "str"  the text s                                             *)
(*    kind = "num"  the number v + frac/2  (frac = 0: a whole number)      *)
(***************************************************************************)
EXTENDS Integers, Sequences, FiniteSets, TLC

VARIABLES
    mode,               \* which entry point the behaviour exercises
    pc,                 \* position inside the running function
    sheets_data,        \* analyze_sheets: the sheet identifiers, in input order
    key_variables,      \* analyze_sheets: the requested variables (a list)
    max_lag,            \* lag depth handed to the causality primitive
    num_simulations,    \* trial count
    forecast_period,    \* horizon length
    sheet_idx,          \* index of the sheet the loop of line 103 is at
    df,                 \* the raw frame of the current sheet / the input frame
    cleaned_data,       \* result of robust_clean_data (line 104)
    results,            \* analyze_sheets: the report, a dict in insertion order
    causality_results,  \* granger_causality_analysis: results (line 7)
    pair_idx,           \* position of the loops of lines 9-10 in the pair space
    failing,            \* the cells of the pair space at which the primitive raises
    test_result,        \* what the causality primitive did for the last pair
    simulation_results, \* analyze_sheets: simulation_results (line 113)
    var_idx,            \* position of the loop of line 114
    mc_out,             \* what monte_carlo_simulation returned last
    rng,                \* state of numpy's global random generator
    exception,          \* "" or the exception that left the entry point
    calls               \* how often each analyzer was entered for the current sheet

vars == << mode, pc, sheets_data, key_variables, max_lag, num_simulations,
           forecast_period, sheet_idx, df, cleaned_data, results,
           causality_results, pair_idx, failing, test_result,
           simulation_results, var_idx, mc_out, rng, exception, calls >>

----------------------------------------------------------------------------
(* Cells and labels *)

NaN == [kind |-> "nan", s |-> "", v |-> 0, frac |-> 0]

Text(t) == [kind |-> "str", s |-> t, v |-> 0, frac |-> 0]

Num(n) == [kind |-> "num", s |-> "", v |-> n, frac |-> 0]

Half(n) == [kind |-> "num", s |-> "", v |-> n, frac |-> 1]

Year == Text("Year")

IsNa(c) == c.kind = "nan"

\* The texts of the model that pd.to_numeric parses as a number, with the
\* number each stands for; every other text fails to parse.
NumericTexts == {"7", "2005"}

ParseText(t) == IF t = "7" THEN 7 ELSE 2005

\* pd.to_numeric(..., errors="coerce") on one value: a number stays, a text
\* that parses becomes its number, anything else becomes NaN.
ToNumeric(c) ==
    IF c.kind = "num" THEN c
    ELSE IF c.kind = "str" /\ c.s \in NumericTexts THEN Num(ParseText(c.s))
    ELSE NaN

\* .astype(int) on one (finite) float: truncation.
AsInt(c) == Num(c.v)

\* str(label), as the f-string of lines 17 and 19 formats a column label.
Format(c) ==
    IF c.kind = "str" THEN c.s
    ELSE IF c.kind = "nan" THEN "nan"
    ELSE IF c.frac = 1 THEN ToString(c.v) \o ".5"
    ELSE ToString(c.v)

----------------------------------------------------------------------------
(* Frames *)

Frame(cols, rws) == [columns |-> cols, rows |-> rws]

Range(q) == {q[i] : i \in 1..Len(q)}

\* How many columns carry the label: df[label] is a Series when it is 1 and
\* a DataFrame when it is more.
LabelCount(cols, label) == Cardinality({i \in 1..Len(cols) : cols[i] = label})

\* Position of a label that occurs once.
LabelPos(cols, label) == CHOOSE i \in 1..Len(cols) : cols[i] = label

\* The increasing enumeration of a set of positions.
RECURSIVE Ordered(_)
Ordered(S) ==
    IF S = {} THEN << >>
    ELSE LET m == CHOOSE x \in S : \A y \in S : x <= y
         IN << m >> \o Ordered(S \ {m})

\* The frame restricted to the columns at the positions idx, in that order.
TakeColumns(f, idx) ==
    Frame([k \in 1..Len(idx) |-> f.columns[idx[k]]],
          [r \in 1..Len(f.rows) |-> [k \in 1..Len(idx) |-> f.rows[r][idx[k]]]])

RowHasNa(row) == \E k \in 1..Len(row) : IsNa(row[k])

\* DataFrame.dropna(axis=1, how="all"): a column stays iff some row holds a
\* value in it; with no row at all, no column stays.
DropAllNaColumns(f) ==
    TakeColumns(f, Ordered({k \in 1..Len(f.columns) :
                              \E r \in 1..Len(f.rows) : ~IsNa(f.rows[r][k])}))

\* DataFrame.dropna(axis=0, how="any") and DataFrame.dropna().
DropAnyNaRows(f) ==
    Frame(f.columns, SelectSeq(f.rows, LAMBDA row : ~RowHasNa(row)))

\* DataFrame.rename(columns={old: new}): every column labelled old.
Rename(f, old, new) ==
    Frame([k \in 1..Len(f.columns) |->
             IF f.columns[k] = old THEN new ELSE f.columns[k]], f.rows)

\* df[label] = pd.to_numeric(df[label], errors="coerce") for column k.
CoerceColumn(f, k) ==
    Frame(f.columns,
          [r \in 1..Len(f.rows) |->
             [j \in 1..Len(f.columns) |->
                IF j = k THEN ToNumeric(f.rows[r][j]) ELSE f.rows[r][j]]])

\* df[label] = df[label].astype(int) for column k.
AsIntColumn(f, k) ==
    Frame(f.columns,
          [r \in 1..Len(f.rows) |->
             [j \in 1..Len(f.columns) |->
                IF j = k THEN AsInt(f.rows[r][j]) ELSE f.rows[r][j]]])

\* DataFrame.dropna(subset=[label]) for the column at position k.
DropNaIn(f, k) ==
    Frame(f.columns, SelectSeq(f.rows, LAMBDA row : ~IsNa(row[k])))

----------------------------------------------------------------------------
(* robust_clean_data *)

Raised(e) == [exception |-> e, frame |-> Frame(<< >>, << >>)]

Returned(f) == [exception |-> "", frame |-> f]

\* Lines 49-55: "Year" and then every column after the first whose
\* df_cleaned[col] is a Series; for a repeated label df_cleaned[col] is a
\* DataFrame, pd.to_numeric raises TypeError and the except clause skips it.
NumericColumns(f) ==
    << 1 >> \o Ordered({k \in 2..Len(f.columns) :
                          LabelCount(f.columns, f.columns[k]) = 1})

\* Lines 50-53: the columns the loop reaches without an exception are coerced.
RECURSIVE CoerceColumns(_, _)
CoerceColumns(f, idx) ==
    IF idx = << >> THEN f
    ELSE CoerceColumns(CoerceColumn(f, idx[1]), Tail(idx))

\* Lines 44-58, on the frame of line 43 (which has a first column).
CleanFrom44(f43) ==
    LET f44 == Rename(f43, f43.columns[1], Year)
    IN  IF LabelCount(f44.columns, Year) > 1
        THEN Raised("TypeError")                        \* line 45, a DataFrame
        ELSE LET f45 == CoerceColumn(f44, 1)
                 f46 == DropNaIn(f45, 1)
                 f47 == AsIntColumn(f46, 1)
                 numeric_columns == NumericColumns(f47)
                 f53 == CoerceColumns(f47, Tail(numeric_columns))
             IN  Returned(DropAnyNaRows(TakeColumns(f53, numeric_columns)))

\* A slip in line 40: df.iloc[0:], the header row stays among the data.
DataRowsFromZero(d) == d.rows

\* Line 40: df.iloc[1:].
DataRows(d) == Tail(d.rows)

RobustCleanData(d) ==
    IF Len(d.rows) = 0
    THEN Raised("IndexError")                           \* line 41, df.iloc[0]
    ELSE LET f41 == Frame(d.rows[1], DataRows(d))
             f42 == DropAllNaColumns(f41)
             f43 == DropAnyNaRows(f42)
         IN  IF Len(f43.columns) = 0
             THEN Raised("IndexError")                  \* line 44, columns[0]
             ELSE CleanFrom44(f43)

----------------------------------------------------------------------------
(* validate_data *)

MinRows == 10

\* A slip in line 62: > for >=.
ValidateDataOffByOne(f) == Len(DropAnyNaRows(f).rows) > MinRows

\* A slip in line 62: the row count is not compared with min_rows.
ValidateDataNoMinimum(f) == Len(DropAnyNaRows(f).rows) >= 0

ValidateData(f) == Len(DropAnyNaRows(f).rows) >= MinRows

----------------------------------------------------------------------------
(* Python dicts, in insertion order: a sequence of [key, value] records *)

DictKeys(d) == [i \in 1..Len(d) |-> d[i].key]

HasKey(d, k) == \E i \in 1..Len(d) : d[i].key = k

DictGet(d, k) == d[CHOOSE i \in 1..Len(d) : d[i].key = k].value

\* d[k] = v: a new key is appended, an existing key keeps its position.
DictSet(d, k, v) ==
    IF HasKey(d, k)
    THEN [i \in 1..Len(d) |-> IF d[i].key = k THEN [key |-> k, value |-> v] ELSE d[i]]
    ELSE Append(d, [key |-> k, value |-> v])

----------------------------------------------------------------------------
(* granger_causality_analysis *)

\* A slip in line 8: only the requested variables are tested.
VariablesRequestedOnly(data) ==
    SelectSeq(Tail(data.columns), LAMBDA c : c \in Range(key_variables))

\* Line 8: data.columns[1:].
Variables(data) == Tail(data.columns)

\* The loops of lines 9-11 walk the V x V grid of (var1, var2) row by row;
\* cell k (from 1) holds variables[(k-1) \div V + 1], variables[(k-1) % V + 1].
Var1(variables, k) == variables[((k - 1) \div Len(variables)) + 1]

Var2(variables, k) == variables[((k - 1) % Len(variables)) + 1]

\* The cells after cell k that pass the test of line 11.
PairsAfter(variables, k) ==
    {j \in (k + 1)..(Len(variables) * Len(variables)) :
        Var1(variables, j) # Var2(variables, j)}

HasNextPair(variables, k) == PairsAfter(variables, k) # {}

NextPair(variables, k) ==
    CHOOSE j \in PairsAfter(variables, k) : \A i \in PairsAfter(variables, k) : j <= i

\* Line 17 / 19: f"{var1} causes {var2}".
PairKey(var1, var2) == Format(var1) \o " causes " \o Format(var2)

\* The value the primitive reports as test_result[lag][0]["ssr_ftest"][1],
\* rounded (line 16).  The statistics are outside the model: the p-value of
\* lag k is the symbolic value k.
SsrFtestP(lag) == lag

\* grangercausalitytests(data[[var1, var2]], max_lag): it returns one test
\* per lag 1..max_lag or raises.  Which of the two is decided by the data, and
\* the statistics are outside the model: raises says which it is.
GrangerCausalityTests(raises, lags) ==
    IF raises
    THEN [ok |-> FALSE, e |-> "singular matrix", pvalue |-> << >>]
    ELSE [ok |-> TRUE, e |-> "", pvalue |-> [lag \in 1..lags |-> SsrFtestP(lag)]]

ListValue(l) == [type |-> "list", list |-> l, str |-> ""]

StrValue(t) == [type |-> "str", list |-> << >>, str |-> t]

\* A slip in lines 18-19: the exception is swallowed and nothing is recorded.
GrangerEntryDropsFailure(res, var1, var2, out, lags) ==
    IF out.ok
    THEN DictSet(res, PairKey(var1, var2),
                 ListValue([lag \in 1..lags |-> out.pvalue[lag]]))
    ELSE res

\* Lines 12-19 for one pair, given what the primitive did.
GrangerEntry(res, var1, var2, out, lags) ==
    IF out.ok
    THEN DictSet(res, PairKey(var1, var2),
                 ListValue([lag \in 1..lags |-> out.pvalue[lag]]))
    ELSE DictSet(res, PairKey(var1, var2), StrValue("Error: " \o out.e))

----------------------------------------------------------------------------
(* monte_carlo_simulation *)

\* A value in half units, so that the arithmetic stays in the integers.
HalfUnits(c) == 2 * c.v + c.frac

\* Line 24: data[variable].dropna().values.
HistoricalData(data, variable) ==
    LET k == LabelPos(data.columns, variable)
        col == [r \in 1..Len(data.rows) |-> data.rows[r][k]]
        kept == SelectSeq(col, LAMBDA c : ~IsNa(c))
    IN  [i \in 1..Len(kept) |-> HalfUnits(kept[i])]

RECURSIVE Sum(_)
Sum(q) == IF q = << >> THEN 0 ELSE q[1] + Sum(Tail(q))

\* np.mean and np.std, rounded down to a whole number; of no value: nan,
\* which the model writes 0.
Mean(q) == IF Len(q) = 0 THEN 0 ELSE Sum(q) \div Len(q)

ISqrt(n) == CHOOSE r \in 0..n : r * r <= n /\ (r + 1) * (r + 1) > n

Std(q) ==
    IF Len(q) = 0 THEN 0
    ELSE ISqrt(Sum([i \in 1..Len(q) |-> (q[i] - Mean(q)) * (q[i] - Mean(q))])
               \div Len(q))

\* numpy's global generator: a state that every drawn value advances.
RngModulus == 3

\* One value of np.random.normal(mean, std_dev): mean plus a whole number of
\* standard deviations, -1, 0 or 1, read off the generator state.
NormalValue(mean, std_dev, r) == mean + (r - 1) * std_dev

\* Line 32: np.random.normal(mean, std_dev, forecast_period), drawn from
\* generator state r.
NormalVector(mean, std_dev, period, r) ==
    [j \in 1..period |-> NormalValue(mean, std_dev, (r + j - 1) % RngModulus)]

\* Lines 30-32: row i is drawn after the i - 1 rows before it.
Simulations(mean, std_dev, sims, period, r) ==
    [i \in 1..sims |-> NormalVector(mean, std_dev, period, (r + (i - 1) * period) % RngModulus)]

\* Lines 34-35: np.mean / np.std over axis 0, one value per horizon step.
ColumnOf(m, j) == [i \in 1..Len(m) |-> m[i][j]]

None == [none |-> TRUE, simulations |-> << >>, forecast_mean |-> << >>,
         forecast_std_dev |-> << >>]

\* A slip in line 25: < 1 for < 2.
NotEnoughDataOffByOne(historical_data) == Len(historical_data) < 1

\* Line 25: not enough data.
NotEnoughData(historical_data) == Len(historical_data) < 2

MonteCarloSimulation(data, variable, sims, period, r) ==
    LET historical_data == HistoricalData(data, variable)
    IN  IF NotEnoughData(historical_data)
        THEN [out |-> None, rng |-> r]                             \* line 26
        ELSE LET mean == Mean(historical_data)
                 std_dev == Std(historical_data)
                 simulations == Simulations(mean, std_dev, sims, period, r)
             IN  [out |-> [none |-> FALSE,
                           simulations |-> simulations,
                           forecast_mean |->
                               [j \in 1..period |-> Mean(ColumnOf(simulations, j))],
                           forecast_std_dev |->
                               [j \in 1..period |-> Std(ColumnOf(simulations, j))]],
                  rng |-> (r + sims * period) % RngModulus]

----------------------------------------------------------------------------
(* The inputs *)

MaxCols == 3        \* columns of a raw sheet

MaxRows == 2        \* regular data rows of a raw sheet handed to the cleaner

RowSlack == 1       \* analyze_sheets: regular data rows within MinRows -+ RowSlack

MaxSheets == 2      \* sheets of one analyze_sheets call

MaxLag == 2         \* max_lag

MaxSims == 2        \* num_simulations

MaxPeriod == 2      \* forecast_period

MaxHist == 3        \* rows of the frame handed to monte_carlo_simulation

\* The header cells of a regular sheet: the time axis, then the variables.
ColumnNames == << "Date", "A", "B", "C", "D", "E" >>

StandardHeader(n) == [j \in 1..n |-> Text(ColumnNames[j])]

\* The headers of the model: the regular one; one label repeated (position j
\* repeats position i); a column that is already called "Year"; and a
\* variable whose name contains the words of the key format.
Headers(n) ==
    {StandardHeader(n)}
    \cup {[StandardHeader(n) EXCEPT ![j] = StandardHeader(n)[i]] :
            i \in 1..n, j \in 2..n}
    \cup {[StandardHeader(n) EXCEPT ![j] = Year] : j \in 1..n}
    \cup {[StandardHeader(n) EXCEPT ![j] = Text("A causes A")] : j \in 3..n}

\* The i-th regular data row: a year and whole numbers.
GoodCell(i, j) == IF j = 1 THEN Num(2000 + i) ELSE Num(i * (j - 1))

GoodRow(i, n) == [j \in 1..n |-> GoodCell(i, j)]

GoodRows(g, n) == [i \in 1..g |-> GoodRow(i, n)]

\* What an irregular cell holds: nothing, a text that is no number, a text
\* that is one, a number with a fraction.
IrregularCells == {NaN, Text("n/a"), Text("7"), Half(3)}

\* The raw frame read from a sheet: the header row (row 0 of the frame, line
\* 41), then the irregular rows, then g regular rows.  The frame's own
\* labels are what the reader made of the line above the header.
RawSheet(header, irregular, g) ==
    Frame([j \in 1..Len(header) |-> Text("Unnamed")],
          << header >> \o irregular \o GoodRows(g, Len(header)))

EmptySheet == Frame(<< >>, << >>)

\* The data rows with one cell out of the ordinary.
OddRows(n) ==
    {[GoodRow(1, n) EXCEPT ![j] = c] : j \in 1..n, c \in IrregularCells}

\* A sheet whose column j holds a text that is no number in every row.
TextColumnSheet(n, j, g) ==
    Frame([k \in 1..n |-> Text("Unnamed")],
          << StandardHeader(n) >>
          \o [i \in 1..g |-> [GoodRow(i, n) EXCEPT ![j] = Text("n/a")]])

\* What stands between the header and the regular rows: nothing, or one row
\* of irregular cells, or one row with one cell out of the ordinary.
IrregularRows(n) ==
    {<< >>} \cup {<< row >> : row \in [1..n -> IrregularCells] \cup OddRows(n)}

\* robust_clean_data is handed the empty sheet, or a header over irregular
\* rows and up to MaxRows regular rows, or a sheet with a column of text.
IsRawSheet(d) ==
    \/ d = EmptySheet
    \/ \E n \in 0..MaxCols : \E h \in Headers(n) : \E irr \in IrregularRows(n) :
          \E g \in 0..MaxRows : d = RawSheet(h, irr, g)
    \/ \E n \in 1..MaxCols : \E j \in 1..n : \E g \in 1..MaxRows :
          d = TextColumnSheet(n, j, g)

\* The frames granger_causality_analysis is handed: what robust_clean_data
\* returns for the sheets of regular rows.
CleanedFrames ==
    {RobustCleanData(d).frame :
        d \in {x \in {RawSheet(h, << >>, g) :
                         h \in UNION {Headers(n) : n \in 1..MaxCols},
                         g \in 1..MaxRows} :
                 RobustCleanData(x).exception = ""}}

\* The sets of cells of the pair space of V variables.
FailingSets(V) == SUBSET {k \in 1..(V * V) : (k - 1) \div V # (k - 1) % V}

\* The data of monte_carlo_simulation: a time axis and one variable, whose
\* values may be missing.
HistoryCells == {NaN, Num(10), Half(12)}

MCFrames ==
    UNION {{Frame(<< Year, Text("A") >>,
                  [i \in 1..h |-> << Num(2000 + i), col[i] >>]) :
               col \in [1..h -> HistoryCells]} : h \in 0..MaxHist}

\* analyze_sheets: the sheets a workbook of three columns can hold.  The
\* empty sheet and the sheet of a header alone; the regular sheet with a
\* number of rows around MinRows; every header over MinRows rows; the
\* narrower regular sheets; the regular sheet with one odd row, over enough
\* rows with it or without it; a sheet with a column of text.
PipelineHeader == StandardHeader(Len(<< "Date", "A", "B" >>))

PipelineSheets ==
    {EmptySheet, RawSheet(PipelineHeader, << >>, 0)}
    \cup {RawSheet(PipelineHeader, << >>, g) :
            g \in (MinRows - RowSlack)..(MinRows + RowSlack)}
    \cup {RawSheet(h, << >>, MinRows) : h \in Headers(Len(PipelineHeader))}
    \cup {RawSheet(StandardHeader(n), << >>, MinRows) : n \in 1..Len(PipelineHeader)}
    \cup {RawSheet(PipelineHeader, << row >>, g) :
            row \in {[GoodRow(1, Len(PipelineHeader)) EXCEPT ![1] = Half(3)],
                     [GoodRow(1, Len(PipelineHeader)) EXCEPT ![1] = Text("n/a")],
                     [GoodRow(1, Len(PipelineHeader)) EXCEPT ![2] = NaN],
                     [GoodRow(1, Len(PipelineHeader)) EXCEPT ![3] = Text("n/a")]},
            g \in {MinRows - 1, MinRows}}
    \cup {TextColumnSheet(Len(PipelineHeader), 3, MinRows)}

\* What robust_clean_data does with each of them.
PipelineCleaned == [d \in PipelineSheets |-> RobustCleanData(d)]

\* The mapping holds the sheet identifiers 1..n, the last one first.
SheetOrder(n) == [i \in 1..n |-> n + 1 - i]

\* The key_variables of the model: a column and a name no sheet has; the
\* time axis and a column twice; two columns, the later one first.
KeyVariableLists ==
    { << Text("A"), Text("Occupied units") >>,
      << Year, Text("A"), Text("A") >>,
      << Text("B"), Text("A") >> }

\* analyze_sheets: the primitive raises for no pair, for the first pair, or
\* for every pair.
PipelineFailing == { {}, {2}, 1..(Len(PipelineHeader) * Len(PipelineHeader)) }

----------------------------------------------------------------------------
(* The state machine *)

NoTest == [ok |-> FALSE, e |-> "", pvalue |-> << >>]

NoCalls == [granger |-> 0, monte |-> 0]

(* robust_clean_data on a raw sheet, and then again on what it returned *)

CleanCall ==
    /\ mode = "clean" /\ pc = "clean"
    /\ LET out == RobustCleanData(df)
       IN  /\ cleaned_data' = out.frame
           /\ exception' = out.exception
           /\ pc' = IF out.exception = "" THEN "cleaned" ELSE "raised"
    /\ UNCHANGED << mode, sheets_data, key_variables, max_lag,
                    num_simulations, forecast_period, sheet_idx, df, results,
                    causality_results, pair_idx, failing, test_result,
                    simulation_results, var_idx, mc_out, rng, calls >>

ReClean ==
    /\ mode = "clean" /\ pc = "cleaned"
    /\ df' = cleaned_data
    /\ LET out == RobustCleanData(cleaned_data)
       IN  /\ cleaned_data' = out.frame
           /\ exception' = out.exception
           /\ pc' = IF out.exception = "" THEN "recleaned" ELSE "reraised"
    /\ UNCHANGED << mode, sheets_data, key_variables, max_lag,
                    num_simulations, forecast_period, sheet_idx, results,
                    causality_results, pair_idx, failing, test_result,
                    simulation_results, var_idx, mc_out, rng, calls >>

(* granger_causality_analysis: one pair of lines 9-19 per step *)

GrangerPair ==
    /\ pc = "granger"
    /\ HasNextPair(Variables(cleaned_data), pair_idx)
    /\ LET variables == Variables(cleaned_data)
           k == NextPair(variables, pair_idx)
           out == GrangerCausalityTests(k \in failing, max_lag)
       IN  /\ pair_idx' = k
           /\ test_result' = out
           /\ causality_results' =
                  GrangerEntry(causality_results, Var1(variables, k),
                               Var2(variables, k), out, max_lag)
    /\ UNCHANGED << mode, pc, sheets_data, key_variables, max_lag,
                    num_simulations, forecast_period, sheet_idx, df,
                    cleaned_data, results, failing, simulation_results,
                    var_idx, mc_out, rng, exception, calls >>

\* Line 20; in analyze_sheets, on to line 113.
GrangerReturn ==
    /\ pc = "granger"
    /\ ~HasNextPair(Variables(cleaned_data), pair_idx)
    /\ pc' = IF mode = "pipeline" THEN "simulate" ELSE "done"
    /\ UNCHANGED << mode, sheets_data, key_variables, max_lag,
                    num_simulations, forecast_period, sheet_idx, df,
                    cleaned_data, results, causality_results, pair_idx,
                    failing, test_result, simulation_results, var_idx,
                    mc_out, rng, exception, calls >>

(* monte_carlo_simulation *)

MonteCarloCall ==
    /\ mode = "monte" /\ pc = "monte"
    /\ LET r == MonteCarloSimulation(cleaned_data, key_variables[1],
                                     num_simulations, forecast_period, rng)
       IN  /\ mc_out' = r.out
           /\ rng' = r.rng
    /\ calls' = [calls EXCEPT !.monte = 1]
    /\ pc' = "done"
    /\ UNCHANGED << mode, sheets_data, key_variables, max_lag,
                    num_simulations, forecast_period, sheet_idx, df,
                    cleaned_data, results, causality_results, pair_idx,
                    failing, test_result, simulation_results, var_idx,
                    exception >>

(* analyze_sheets *)

ErrorResult ==
    [keys |-> {"Error"}, Error |-> "Insufficient data for analysis",
     Granger |-> << >>, MonteCarlo |-> << >>]

SheetResult(causality, simulation) ==
    [keys |-> {"Granger Causality", "Monte Carlo Simulation"}, Error |-> "",
     Granger |-> causality, MonteCarlo |-> simulation]

Insufficient ==
    [marker |-> "Insufficient data for simulation", Simulations |-> << >>,
     ForecastMean |-> << >>, ForecastStdDev |-> << >>]

\* Lines 119-126.
SimulationEntry(out) ==
    IF ~out.none
    THEN [marker |-> "", Simulations |-> out.simulations,
          ForecastMean |-> out.forecast_mean,
          ForecastStdDev |-> out.forecast_std_dev]
    ELSE Insufficient

\* Lines 103-110: the next sheet is cleaned and validated; the mapping hands
\* over whatever frame the caller put under the identifier.
NextSheet ==
    /\ mode = "pipeline" /\ pc = "loop"
    /\ sheet_idx < Len(sheets_data)
    /\ sheet_idx' = sheet_idx + 1
    /\ \E d \in PipelineSheets :
          LET out == PipelineCleaned[d]
              valid == out.exception = "" /\ ValidateData(out.frame)
          IN  /\ df' = d
              /\ cleaned_data' = out.frame
              /\ exception' = out.exception
              /\ calls' = IF valid THEN [granger |-> 1, monte |-> 0] ELSE NoCalls
              /\ pc' = IF out.exception # "" THEN "raised"
                       ELSE IF valid THEN "granger" ELSE "loop"
              /\ results' = IF out.exception = "" /\ ~valid
                            THEN DictSet(results, sheets_data[sheet_idx + 1],
                                         ErrorResult)
                            ELSE results
    /\ causality_results' = << >>
    /\ pair_idx' = 0
    /\ test_result' = NoTest
    /\ simulation_results' = << >>
    /\ var_idx' = 0
    /\ UNCHANGED << mode, sheets_data, key_variables, max_lag,
                    num_simulations, forecast_period, failing, mc_out, rng >>

\* Lines 114-126 for one requested variable.
SimulateVar ==
    /\ mode = "pipeline" /\ pc = "simulate"
    /\ var_idx < Len(key_variables)
    /\ var_idx' = var_idx + 1
    /\ LET var == key_variables[var_idx + 1]
       IN  IF var \in Range(cleaned_data.columns)
           THEN LET r == MonteCarloSimulation(cleaned_data, var, num_simulations,
                                              forecast_period, rng)
                IN  /\ mc_out' = r.out
                    /\ rng' = r.rng
                    /\ calls' = [calls EXCEPT !.monte = @ + 1]
                    /\ simulation_results' =
                           DictSet(simulation_results, var, SimulationEntry(r.out))
           ELSE UNCHANGED << mc_out, rng, calls, simulation_results >>
    /\ UNCHANGED << mode, pc, sheets_data, key_variables, max_lag,
                    num_simulations, forecast_period, sheet_idx, df,
                    cleaned_data, results, causality_results, pair_idx,
                    failing, test_result, exception >>

\* Lines 128-131.
StoreSheet ==
    /\ mode = "pipeline" /\ pc = "simulate"
    /\ var_idx = Len(key_variables)
    /\ results' = DictSet(results, sheets_data[sheet_idx],
                          SheetResult(causality_results, simulation_results))
    /\ pc' = "loop"
    /\ UNCHANGED << mode, sheets_data, key_variables, max_lag,
                    num_simulations, forecast_period, sheet_idx, df,
                    cleaned_data, causality_results, pair_idx, failing,
                    test_result, simulation_results, var_idx, mc_out, rng,
                    exception, calls >>

\* Line 132.
Return ==
    /\ mode = "pipeline" /\ pc = "loop"
    /\ sheet_idx = Len(sheets_data)
    /\ pc' = "done"
    /\ UNCHANGED << mode, sheets_data, key_variables, max_lag,
                    num_simulations, forecast_period, sheet_idx, df,
                    cleaned_data, results, causality_results, pair_idx,
                    failing, test_result, simulation_results, var_idx,
                    mc_out, rng, exception, calls >>

----------------------------------------------------------------------------
(* The specifications *)

\* analyze_sheets(sheets_data, key_variables, max_lag, num_simulations,
\* forecast_period).  The generator starts in one state and is advanced by
\* every draw; SpecMonte starts monte_carlo_simulation in each of its states.
Init ==
    /\ mode = "pipeline"
    /\ pc = "loop"
    /\ sheets_data \in {SheetOrder(n) : n \in 0..MaxSheets}
    /\ key_variables \in KeyVariableLists
    /\ max_lag = MaxLag
    /\ num_simulations = MaxSims
    /\ forecast_period = MaxPeriod
    /\ sheet_idx = 0
    /\ df = EmptySheet
    /\ cleaned_data = EmptySheet
    /\ results = << >>
    /\ causality_results = << >>
    /\ pair_idx = 0
    /\ failing \in PipelineFailing
    /\ test_result = NoTest
    /\ simulation_results = << >>
    /\ var_idx = 0
    /\ mc_out = None
    /\ rng = 0
    /\ exception = ""
    /\ calls = NoCalls

Next ==
    \/ NextSheet
    \/ GrangerPair
    \/ GrangerReturn
    \/ SimulateVar
    \/ StoreSheet
    \/ Return

Spec == Init /\ [][Next]_vars

\* robust_clean_data(df), and robust_clean_data of its result.
InitClean ==
    /\ mode = "clean"
    /\ pc = "clean"
    /\ sheets_data = << >>
    /\ key_variables = << >>
    /\ max_lag = 1
    /\ num_simulations = 1
    /\ forecast_period = 1
    /\ sheet_idx = 0
    /\ IsRawSheet(df)
    /\ cleaned_data = EmptySheet
    /\ results = << >>
    /\ causality_results = << >>
    /\ pair_idx = 0
    /\ failing = {}
    /\ test_result = NoTest
    /\ simulation_results = << >>
    /\ var_idx = 0
    /\ mc_out = None
    /\ rng = 0
    /\ exception = ""
    /\ calls = NoCalls

NextClean == CleanCall \/ ReClean

SpecClean == InitClean /\ [][NextClean]_vars

\* granger_causality_analysis(data, max_lag) on a cleaned frame.
InitGranger ==
    /\ mode = "granger"
    /\ pc = "granger"
    /\ sheets_data = << >>
    /\ key_variables = << >>
    /\ max_lag \in 1..MaxLag
    /\ num_simulations = 1
    /\ forecast_period = 1
    /\ sheet_idx = 0
    /\ df = EmptySheet
    /\ cleaned_data \in CleanedFrames
    /\ results = << >>
    /\ causality_results = << >>
    /\ pair_idx = 0
    /\ failing \in FailingSets(Len(cleaned_data.columns) - 1)
    /\ test_result = NoTest
    /\ simulation_results = << >>
    /\ var_idx = 0
    /\ mc_out = None
    /\ rng = 0
    /\ exception = ""
    /\ calls = NoCalls

NextGranger == GrangerPair \/ GrangerReturn

SpecGranger == InitGranger /\ [][NextGranger]_vars

\* monte_carlo_simulation(data, variable, num_simulations, forecast_period).
InitMonte ==
    /\ mode = "monte"
    /\ pc = "monte"
    /\ sheets_data = << >>
    /\ key_variables = << Text("A") >>
    /\ max_lag = 1
    /\ num_simulations \in 1..MaxSims
    /\ forecast_period \in 1..MaxPeriod
    /\ sheet_idx = 0
    /\ df = EmptySheet
    /\ cleaned_data \in MCFrames
    /\ results = << >>
    /\ causality_results = << >>
    /\ pair_idx = 0
    /\ failing = {}
    /\ test_result = NoTest
    /\ simulation_results = << >>
    /\ var_idx = 0
    /\ mc_out = None
    /\ rng \in 0..(RngModulus - 1)
    /\ exception = ""
    /\ calls = NoCalls

NextMonte == MonteCarloCall

SpecMonte == InitMonte /\ [][NextMonte]_vars

----------------------------------------------------------------------------
(* The claims *)

SheetAt(i) == sheets_data[i]

IsSuccess(r) == r.keys = {"Granger Causality", "Monte Carlo Simulation"}

\* The ordered pairs of distinct variables of a frame, as the keys they get.
PairKeysOf(f) ==
    {PairKey(f.columns[p[1]], f.columns[p[2]]) :
        p \in {q \in (2..Len(f.columns)) \X (2..Len(f.columns)) :
                 f.columns[q[1]] # f.columns[q[2]]}}

\* C1: analyze_sheets always completes without raising, and the report it
\* returns has exactly one entry per input sheet identifier, in input order.
C1_AlwaysCompletes ==
    /\ exception = ""
    /\ pc # "raised"
    /\ pc = "done" => DictKeys(results) = sheets_data

\* C2: a sheet whose cleaned frame has fewer than MinRows rows gets the
\* marker "Insufficient data for analysis" and neither analyzer is entered
\* for it; a sheet whose cleaned frame has at least MinRows rows has the
\* causality analysis entered and, once stored, a result with both mappings
\* and never the marker.
C2_ValidationGate ==
    (mode = "pipeline" /\ sheet_idx >= 1 /\ exception = "") =>
        IF Len(cleaned_data.rows) < MinRows
        THEN /\ pc \in {"loop", "done"}
             /\ HasKey(results, SheetAt(sheet_idx))
             /\ DictGet(results, SheetAt(sheet_idx)) = ErrorResult
             /\ calls = NoCalls
        ELSE /\ calls.granger = 1
             /\ pc \in {"loop", "done"} <=> HasKey(results, SheetAt(sheet_idx))
             /\ HasKey(results, SheetAt(sheet_idx)) =>
                   /\ IsSuccess(DictGet(results, SheetAt(sheet_idx)))
                   /\ DictGet(results, SheetAt(sheet_idx)).Error = ""
                   /\ DictGet(results, SheetAt(sheet_idx)).Granger = causality_results
                   /\ DictGet(results, SheetAt(sheet_idx)).MonteCarlo = simulation_results

\* C2 witness: the report holds a full result for a first sheet and the
\* marker for a second one, whose cleaned frame is one row short.
C2_Witness ==
    /\ Len(results) = 2
    /\ IsSuccess(results[1].value)
    /\ results[2].value = ErrorResult
    /\ Len(cleaned_data.rows) = MinRows - 1
    /\ Len(cleaned_data.columns) = 3

\* C3: for a cleaned frame with V >= 2 variables the returned mapping has
\* exactly V * (V - 1) entries, one per ordered pair of distinct variables,
\* keyed "var1 causes var2", in the order of the pair space.
C3_OneEntryPerPair ==
    (mode = "granger" /\ pc = "done" /\ Len(cleaned_data.columns) >= 3) =>
        LET V == Len(cleaned_data.columns) - 1
            cells == Ordered({k \in 1..(V * V) : (k - 1) \div V # (k - 1) % V})
        IN  /\ Len(causality_results) = V * (V - 1)
            /\ DictKeys(causality_results) =
                   [i \in 1..Len(cells) |->
                       PairKey(cleaned_data.columns[((cells[i] - 1) \div V) + 2],
                               cleaned_data.columns[((cells[i] - 1) % V) + 2])]

C5_NeverRaises ==
    (mode = "clean") =>
        /\ exception = ""
        /\ pc = "cleaned" =>
              \/ Len(cleaned_data.rows) = 0
              \/ /\ cleaned_data.columns[1] = Year
                 /\ \A r \in 1..Len(cleaned_data.rows) :
                       /\ cleaned_data.rows[r][1].frac = 0
                       /\ \A k \in 1..Len(cleaned_data.columns) :
                             cleaned_data.rows[r][k].kind = "num"

\* The values of the variable handed to monte_carlo_simulation that are not
\* missing.
Observations == {r \in 1..Len(cleaned_data.rows) : ~IsNa(cleaned_data.rows[r][2])}

\* C6: with fewer than 2 values that are not missing monte_carlo_simulation
\* returns the no-data answer, with no trial matrix, and draws nothing from
\* the generator; with 2 or more it returns a trial matrix of
\* num_simulations rows of forecast_period values and a mean and a standard
\* deviation sequence of forecast_period values each.
C6_MonteCarloShape ==
    [][(mode = "monte" /\ pc = "monte" /\ pc' = "done") =>
          IF Cardinality(Observations) < 2
          THEN /\ mc_out'.none
               /\ mc_out'.simulations = << >>
               /\ mc_out'.forecast_mean = << >>
               /\ mc_out'.forecast_std_dev = << >>
               /\ rng' = rng
          ELSE /\ ~mc_out'.none
               /\ Len(mc_out'.simulations) = num_simulations
               /\ \A i \in 1..num_simulations :
                     Len(mc_out'.simulations[i]) = forecast_period
               /\ Len(mc_out'.forecast_mean) = forecast_period
               /\ Len(mc_out'.forecast_std_dev) = forecast_period]_vars

\* C6 witness: the simulation ran on exactly two values, beside a missing
\* one, for one trial over two steps.
C6_Witness ==
    /\ mode = "monte" /\ pc = "done"
    /\ Len(cleaned_data.rows) = 3
    /\ Cardinality(Observations) = 2
    /\ num_simulations = 1 /\ forecast_period = 2
    /\ ~mc_out.none
    /\ Len(mc_out.simulations) = 1
    /\ Len(mc_out.simulations[1]) = 2

\* C7: for a sheet that passed validation, the simulation mapping has
\* exactly the requested variables that are columns of the cleaned frame as
\* its keys, and the causality mapping has the key of every ordered pair of
\* distinct columns other than the time axis, whatever was requested.
C7_IndependentScopes ==
    (mode = "pipeline" /\ exception = "" /\ sheet_idx >= 1
       /\ HasKey(results, SheetAt(sheet_idx))
       /\ IsSuccess(DictGet(results, SheetAt(sheet_idx)))) =>
        LET r == DictGet(results, SheetAt(sheet_idx))
        IN  /\ Range(DictKeys(r.MonteCarlo)) =
                  Range(key_variables) \cap Range(cleaned_data.columns)
            /\ Range(DictKeys(r.Granger)) = PairKeysOf(cleaned_data)

\* C7 witness: a stored result whose frame has two variables; one requested
\* variable is a column and has its simulation, another is no column and
\* has none, and a column that was not requested is in both causality keys.
C7_Witness ==
    /\ mode = "pipeline" /\ pc = "done" /\ exception = ""
    /\ sheet_idx >= 1
    /\ HasKey(results, SheetAt(sheet_idx))
    /\ IsSuccess(DictGet(results, SheetAt(sheet_idx)))
    /\ cleaned_data.columns = << Year, Text("A"), Text("B") >>
    /\ key_variables = << Text("A"), Text("Occupied units") >>
    /\ DictKeys(DictGet(results, SheetAt(sheet_idx)).MonteCarlo) = << Text("A") >>
    /\ DictKeys(DictGet(results, SheetAt(sheet_idx)).Granger) =
           << "A causes B", "B causes A" >>

\* C8, as claimed: robust_clean_data applied to the frame it returned
\* returns that same frame (stated for the calls that return).
C8_Idempotent ==
    (mode = "clean" /\ pc = "recleaned") => cleaned_data = df

\* C8, amended: applied to the frame it returned, robust_clean_data takes
\* that frame's first row as the header: it raises when the frame has
\* fewer than two rows, and whenever it returns, the frame it returns has at
\* least one row fewer, no more columns, and "Year" as its first column.
C8_ReCleanConsumesARow ==
    (mode = "clean") =>
        /\ pc \in {"recleaned", "reraised"} =>
              (Len(df.rows) < 2 => pc = "reraised" /\ exception = "IndexError")
        /\ pc = "recleaned" =>
              /\ Len(cleaned_data.rows) < Len(df.rows)
              /\ Len(cleaned_data.columns) <= Len(df.columns)
              /\ cleaned_data.columns[1] = Year
              /\ cleaned_data # df

\* C8 witness: a cleaned frame of two rows and three columns was cleaned
\* again and one row is left, under labels taken from the other row.
C8_Witness ==
    /\ mode = "clean" /\ pc = "recleaned"
    /\ Len(df.rows) = 2 /\ Len(df.columns) = 3
    /\ Len(cleaned_data.rows) = 1
    /\ cleaned_data.columns = << Year, df.rows[1][2], df.rows[1][3] >>

\* C9: a column other than the first is among the columns of the returned
\* frame only if pd.to_numeric gets a number out of at least one of its
\* values; a column with no such value is not among them.
C9_UncoercibleExcluded ==
    (mode = "clean" /\ pc = "cleaned") =>
        \A k \in 2..Len(cleaned_data.columns) :
            \E j \in 2..Len(df.columns) :
                /\ df.rows[1][j] = cleaned_data.columns[k]
                /\ \E r \in 2..Len(df.rows) : ~IsNa(ToNumeric(df.rows[r][j]))

\* C10: no simulation entry of the report is the marker "Insufficient data
\* for simulation", and monte_carlo_simulation never answers a call of the
\* pipeline with no data.
C10_NoInsufficientMarker ==
    (mode = "pipeline") =>
        /\ \A i \in 1..Len(results) :
              \A j \in 1..Len(results[i].value.MonteCarlo) :
                  /\ results[i].value.MonteCarlo[j].value # Insufficient
                  /\ results[i].value.MonteCarlo[j].value.marker = ""
        /\ \A j \in 1..Len(simulation_results) :
              simulation_results[j].value.marker = ""
        /\ calls.monte > 0 => ~mc_out.none

\* C10 witness: the report is returned with a sheet of exactly MinRows rows
\* whose simulation entry holds a trial matrix.
C10_Witness ==
    /\ mode = "pipeline" /\ pc = "done"
    /\ Len(cleaned_data.rows) = MinRows
    /\ \E i \in 1..Len(results) :
          /\ IsSuccess(results[i].value)
          /\ Len(results[i].value.MonteCarlo) >= 1
          /\ Len(results[i].value.MonteCarlo[1].value.Simulations) = num_simulations

====
